---- MODULE Spec2Model ----
(***************************************************************************)
(* Model of windows_system_utilities/schedule_task.py: the Task Scheduler  *)
(* client (register_task, run_task, delete_task, list_tasks, the command   *)
(* line front end main) running against the Schedule.Service COM object.   *)
(*                                                                         *)
(* Every call to the service is one step of a client process, so that two  *)
(* clients interleave at the calls.  Text is a tuple of one-character      *)
(* strings wherever the code computes on it (folder paths, the --at        *)
(* argument, formatted start boundaries).                                  *)
(***************************************************************************)
EXTENDS Integers, Sequences, FiniteSets, TLC

(* ------------------------------ bounds -------------------------------- *)

\* operations started in one behaviour
MaxOps == 3

\* operations started in one behaviour of two clients
MaxConcOps == 2

\* clock ticks (half seconds) the clock may advance in one behaviour
MaxClock == 2

(* ------------------------- program constants -------------------------- *)

TASK_CREATE_OR_UPDATE == 6
TASK_LOGON_INTERACTIVE_TOKEN == 3
TASK_LOGON_PASSWORD == 1
TASK_LOGON_SERVICE_ACCOUNT == 5
TASK_TRIGGER_TIME == 1
TASK_TRIGGER_DAILY == 2
TASK_TRIGGER_LOGON == 9
TASK_ACTION_EXEC == 0

\* Python's None for an optional text field, and for an optional datetime
NoneStr == "<None>"
NoneDT == [isNone |-> TRUE]

(* ------------------------------- text --------------------------------- *)

BS == "\\"

Digit == <<"0", "1", "2", "3", "4", "5", "6", "7", "8", "9">>

IsDigit(c) == \E i \in 1..10 : Digit[i] = c

DigitVal(c) == (CHOOSE i \in 1..10 : Digit[i] = c) - 1

\* str.strip("\\"): drop the backslashes at both ends
RECURSIVE LStrip(_)
LStrip(s) == IF s # <<>> /\ Head(s) = BS THEN LStrip(Tail(s)) ELSE s

RECURSIVE RStrip(_)
RStrip(s) ==
    IF s # <<>> /\ s[Len(s)] = BS THEN RStrip(SubSeq(s, 1, Len(s) - 1)) ELSE s

Strip(s) == RStrip(LStrip(s))

\* str.split("\\"): the pieces between backslashes, empty pieces included
RECURSIVE SplitFrom(_, _, _)
SplitFrom(s, cur, acc) ==
    IF s = <<>> THEN Append(acc, cur)
    ELSE IF Head(s) = BS THEN SplitFrom(Tail(s), <<>>, Append(acc, cur))
    ELSE SplitFrom(Tail(s), Append(cur, Head(s)), acc)

Split(s) == SplitFrom(s, <<>>, <<>>)

\* [p for p in ... if p]
RECURSIVE NonEmpty(_)
NonEmpty(ps) ==
    IF ps = <<>> THEN <<>>
    ELSE IF Head(ps) = <<>> THEN NonEmpty(Tail(ps))
    ELSE <<Head(ps)>> \o NonEmpty(Tail(ps))

\* the segments _get_folder walks: folder_path.strip("\\").split("\\"), non-empty
PathParts(folder_path) == NonEmpty(Split(Strip(folder_path)))

\* "\\" + part, the text handed to parent.GetFolder
Rooted(part) == <<BS>> \o part

(* ------------------------------ datetime ------------------------------ *)

\* a datetime: calendar date, second of the day, microsecond
DT(y, mo, d, sod, us) == [date |-> <<y, mo, d>>, sod |-> sod, us |-> us]

IsLeap(y) == (y % 4 = 0 /\ y % 100 # 0) \/ y % 400 = 0

DaysIn(y, mo) ==
    IF mo = 2 THEN (IF IsLeap(y) THEN 29 ELSE 28)
    ELSE IF mo \in {4, 6, 9, 11} THEN 30 ELSE 31

\* how many of the next maxd characters from position i are digits
RECURSIVE DigitRun(_, _, _)
DigitRun(s, i, maxd) ==
    IF maxd = 0 \/ i > Len(s) \/ ~IsDigit(s[i]) THEN 0
    ELSE 1 + DigitRun(s, i + 1, maxd - 1)

RECURSIVE NumAt(_, _, _)
NumAt(s, i, k) ==
    IF k = 0 THEN 0 ELSE NumAt(s, i, k - 1) * 10 + DigitVal(s[i + k - 1])

\* "%Y-%m-%dT%H:%M:%S": each directive's least and greatest digit count and
\* the literal that follows it
FmtMin == <<4, 1, 1, 1, 1, 1>>
FmtMax == <<4, 2, 2, 2, 2, 2>>
FmtSep == <<"-", "-", "T", ":", ":">>

\* the six numbers of the text, or <<>> when the text does not match the format
RECURSIVE Scan(_, _, _, _)
Scan(s, i, f, vals) ==
    IF f > 6 THEN (IF i = Len(s) + 1 THEN vals ELSE <<>>)
    ELSE LET k == DigitRun(s, i, FmtMax[f])
         IN  IF k < FmtMin[f] THEN <<>>
             ELSE IF f < 6 /\ (i + k > Len(s) \/ s[i + k] # FmtSep[f]) THEN <<>>
             ELSE Scan(s, i + k + (IF f < 6 THEN 1 ELSE 0), f + 1,
                       Append(vals, NumAt(s, i, k)))

FieldsValid(v) ==
    /\ v # <<>>
    /\ v[1] >= 1
    /\ v[2] \in 1..12
    /\ v[3] >= 1 /\ v[3] <= DaysIn(v[1], v[2])
    /\ v[4] <= 23 /\ v[5] <= 59 /\ v[6] <= 59

\* a strptime that does not check the ranges of the fields
StrptimeNoRange(text) ==
    LET v == Scan(text, 1, 1, <<>>)
    IN  IF v # <<>>
        THEN [ok |-> TRUE,
              dt |-> DT(v[1], v[2], v[3], v[4] * 3600 + v[5] * 60 + v[6], 0)]
        ELSE [ok |-> FALSE, dt |-> NoneDT]

\* datetime.strptime(text, "%Y-%m-%dT%H:%M:%S"): ok = FALSE stands for ValueError
Strptime(text) ==
    LET v == Scan(text, 1, 1, <<>>)
    IN  IF FieldsValid(v)
        THEN [ok |-> TRUE,
              dt |-> DT(v[1], v[2], v[3], v[4] * 3600 + v[5] * 60 + v[6], 0)]
        ELSE [ok |-> FALSE, dt |-> NoneDT]

\* n written with w digits, zero padded
RECURSIVE Pad(_, _)
Pad(n, w) == IF w = 0 THEN <<>> ELSE Pad(n \div 10, w - 1) \o <<Digit[(n % 10) + 1]>>

\* dt.strftime("%Y-%m-%dT%H:%M:%S"): the microsecond is dropped
Strftime(dt) ==
    Pad(dt.date[1], 4) \o <<"-">> \o Pad(dt.date[2], 2) \o <<"-">>
        \o Pad(dt.date[3], 2) \o <<"T">> \o Pad(dt.sod \div 3600, 2) \o <<":">>
        \o Pad((dt.sod % 3600) \div 60, 2) \o <<":">> \o Pad(dt.sod % 60, 2)

NextDate(d) ==
    IF d[3] < DaysIn(d[1], d[2]) THEN <<d[1], d[2], d[3] + 1>>
    ELSE IF d[2] < 12 THEN <<d[1], d[2] + 1, 1>>
    ELSE <<d[1] + 1, 1, 1>>

\* dt + timedelta(minutes=m), for sums that reach at most into the next day
PlusMinutes(dt, m) ==
    LET t == dt.sod + 60 * m
    IN  IF t < 86400 THEN [dt EXCEPT !.sod = t]
        ELSE [dt EXCEPT !.sod = t - 86400, !.date = NextDate(dt.date)]

(* --------------------------- task definition -------------------------- *)

\* Python's `v or d` on an optional text: None and "" both give d
OrStr(v, d) == IF v = NoneStr \/ v = "" THEN d ELSE v

\* Path.name: the last component of the executable's path
ExeName(exe) == IF exe = <<>> THEN "" ELSE exe[Len(exe)]

\* _base_task_def: the definition before a trigger is attached
BaseTaskDef(params) ==
    [Description |-> <<"Created by Python for ", ExeName(params.exe)>>,
     Author |-> OrStr(params.username, "CurrentUser"),
     Enabled |-> TRUE,
     StartWhenAvailable |-> params.start_when_available,
     Hidden |-> FALSE,
     RunOnlyIfIdle |-> FALSE,
     WakeToRun |-> params.wake_to_run,
     MultipleInstances |-> 0,
     RunLevel |-> IF params.run_with_highest THEN 1 ELSE 0,
     Actions |-> << [Type |-> TASK_ACTION_EXEC,
                     Path |-> params.exe,
                     Arguments |-> OrStr(params.arguments, ""),
                     WorkingDirectory |->
                         IF params.working_dir # NoneStr
                         THEN params.working_dir ELSE ""] >>,
     Triggers |-> <<>>]

add_daily_trigger(t, start_time) ==
    [t EXCEPT !.Triggers =
        Append(@, [Type |-> TASK_TRIGGER_DAILY, DaysInterval |-> 1,
                   StartBoundary |-> Strftime(start_time)])]

add_once_trigger(t, run_at) ==
    [t EXCEPT !.Triggers =
        Append(@, [Type |-> TASK_TRIGGER_TIME, StartBoundary |-> Strftime(run_at)])]

add_logon_trigger(t) ==
    [t EXCEPT !.Triggers = Append(@, [Type |-> TASK_TRIGGER_LOGON])]

TriggerKinds == {"daily", "once", "logon"}

\* a start time that replaces a timestamp of an earlier year by the default
WhenNotPast(when, nowdt) ==
    IF when = NoneDT \/ when.date[1] < nowdt.date[1] THEN PlusMinutes(nowdt, 2)
    ELSE when

\* `when or (datetime.now() + timedelta(minutes=2))`: a datetime is never falsy
WhenOrDefault(when, nowdt) == IF when = NoneDT THEN PlusMinutes(nowdt, 2) ELSE when

\* the trigger branch of register_task, for a supported kind
AttachTrigger(t, trigger, when, nowdt) ==
    IF trigger = "daily" THEN add_daily_trigger(t, WhenOrDefault(when, nowdt))
    ELSE IF trigger = "once" THEN add_once_trigger(t, WhenOrDefault(when, nowdt))
    ELSE add_logon_trigger(t)

\* the user id and password register_task hands to RegisterTaskDefinition
UserIdOf(params) == OrStr(params.username, "")

PwdOf(params) == OrStr(params.password, "")

(* ------------------------- the scheduler service ---------------------- *)

\* A folder is the sequence of its segment names below the root; the root is <<>>.
Root == <<>>

\* the folder a rooted path names
SvcSegments(text) == NonEmpty(Split(text))

\* the name the service gives a task registered without one
GeneratedName == "{GUID}"

\* a password logon needs a user id and a password
SvcAccepts(user, pwd, logon) ==
    logon = TASK_LOGON_PASSWORD => (user # "" /\ pwd # "")

TasksAt(ts, folder, name) == {t \in ts : t.folder = folder /\ t.name = name}

\* a service that updates by adding the new triggers and actions to the old ones
SvcRegisterMerging(ts, folder, name, t, user, pwd, logon) ==
    LET old == TasksAt(ts, folder, name)
        o   == CHOOSE x \in old : TRUE
        new == IF old = {} THEN t
               ELSE [t EXCEPT !.Triggers = o.def.Triggers \o @,
                              !.Actions = o.def.Actions \o @]
    IN  (ts \ old) \cup
        {[folder |-> folder, name |-> name, def |-> new, user |-> user,
          pwd |-> pwd, logon |-> logon,
          state |-> IF old = {} THEN "Ready" ELSE o.state]}

\* RegisterTaskDefinition with TASK_CREATE_OR_UPDATE: the record for (folder,
\* name) is replaced as a whole; a task that existed keeps its lifecycle state
SvcRegisterTaskDefinition(ts, folder, name, t, user, pwd, logon) ==
    LET old == TasksAt(ts, folder, name)
        st  == IF old = {} THEN "Ready" ELSE (CHOOSE o \in old : TRUE).state
    IN  (ts \ old) \cup
        {[folder |-> folder, name |-> name, def |-> t, user |-> user,
          pwd |-> pwd, logon |-> logon, state |-> st]}

\* DeleteTask(name, 0)
SvcDeleteTask(ts, folder, name) == ts \ TasksAt(ts, folder, name)

\* Run(""): the engine starts an instance
SvcRun(ts, folder, name) ==
    {IF t.folder = folder /\ t.name = name THEN [t EXCEPT !.state = "Running"] ELSE t
        : t \in ts}

\* GetTasks(0), as list_tasks logs it: Name, State, Path
SvcGetTasks(ts, folder) ==
    {[Name |-> t.name, State |-> t.state, Path |-> <<t.folder, t.name>>]
        : t \in {u \in ts : u.folder = folder}}

(* ------------------------------- inputs ------------------------------- *)

SegA == <<"A">>
SegB == <<"B">>

PathRoot == <<BS>>
PathA == <<BS, "A">>
PathB == <<BS, "B">>
PathAB == <<BS, "A", BS, "B">>

ExeFoo == <<"C:", "bin", "foo.exe">>
ExeBar == <<"C:", "tools", "bar.exe">>

\* TaskParams with the dataclass defaults of the fields a caller leaves out
TaskParams(name, exe, folder) ==
    [name |-> name, exe |-> exe, arguments |-> "",
     start_when_available |-> TRUE, run_with_highest |-> TRUE,
     wake_to_run |-> FALSE, working_dir |-> NoneStr, folder |-> folder,
     logon_type |-> TASK_LOGON_INTERACTIVE_TOKEN,
     username |-> NoneStr, password |-> NoneStr]

WhenGiven == DT(2025, 8, 18, 9 * 3600, 0)
WhenPast == DT(2020, 1, 1, 0, 0)

ParamsA == TaskParams("J1", ExeFoo, PathAB)

ParamsA2 ==
    [TaskParams("J1", ExeBar, PathAB) EXCEPT
        !.arguments = "-x", !.run_with_highest = FALSE, !.wake_to_run = TRUE,
        !.working_dir = "C:\\work", !.start_when_available = FALSE,
        !.username = "bob", !.password = "pw"]

ParamsB == TaskParams("J1", ExeFoo, PathB)

ParamsB2 ==
    [TaskParams("J2", ExeBar, PathB) EXCEPT
        !.logon_type = TASK_LOGON_PASSWORD, !.username = "bob", !.password = "pw"]

ParamsNoName == TaskParams("", ExeFoo, PathA)

\* the calls register_task(params, trigger, when) the clients make; "weekly"
\* is a kind register_task does not support
RegisterInputs ==
    { <<ParamsA, "daily", NoneDT>>, <<ParamsA, "daily", WhenGiven>>,
      <<ParamsA, "logon", WhenGiven>>, <<ParamsA, "weekly", NoneDT>>,
      <<ParamsA2, "once", WhenPast>>, <<ParamsA2, "once", NoneDT>>,
      <<ParamsB, "daily", WhenGiven>>, <<ParamsB2, "logon", NoneDT>>,
      <<ParamsNoName, "daily", WhenGiven>> }

\* (name, folder) pairs for run_task and delete_task
TaskRefs == { <<"J1", PathAB>>, <<"J1", PathB>>, <<"J2", PathB>> }

\* folders for list_tasks
ListFolders == { PathRoot, PathB, PathAB }

\* values of --at: absent, or a text
NoAt == [given |-> FALSE]
At(text) == [given |-> TRUE, text |-> text]

AtGood == <<"2","0","2","5","-","0","8","-","1","8","T","0","9",":","0","0",":","0","0">>
AtSpace == <<"2","0","2","5","-","0","8","-","1","8"," ","0","9",":","0","0",":","0","0">>
AtBadMonth == <<"2","0","2","5","-","1","3","-","0","1","T","0","9",":","0","0",":","0","0">>
AtEmpty == <<>>

\* the parsed command line of `register`
Args(trigger, at) ==
    [name |-> "J1", exe |-> ExeFoo, args |-> "", folder |-> PathAB,
     trigger |-> trigger, at |-> at, workdir |-> NoneStr, highest |-> FALSE,
     wake |-> FALSE, logon |-> "interactive", username |-> "bob",
     password |-> "pw"]

ArgSet ==
    { Args("daily", At(AtGood)), Args("daily", At(AtSpace)),
      Args("once", At(AtBadMonth)), Args("daily", At(AtEmpty)),
      Args("once", NoAt), Args("weekly", At(AtGood)) }

\* the logon_map of main
LogonMap(logon) ==
    IF logon = "interactive" THEN TASK_LOGON_INTERACTIVE_TOKEN
    ELSE IF logon = "password" THEN TASK_LOGON_PASSWORD
    ELSE TASK_LOGON_SERVICE_ACCOUNT

\* the TaskParams main builds from the command line
ParamsOfArgs(a) ==
    [name |-> a.name, exe |-> a.exe, arguments |-> a.args,
     start_when_available |-> TRUE, run_with_highest |-> a.highest,
     wake_to_run |-> a.wake, working_dir |-> a.workdir, folder |-> a.folder,
     logon_type |-> LogonMap(a.logon),
     username |-> a.username, password |-> a.password]

\* `if args.at:` - an absent --at and an empty one are both falsy
AtTruthy(at) == at.given /\ at.text # <<>>

(* -------------------------------- state ------------------------------- *)

Procs == {1, 2}

VARIABLES
    lookupAbs,  \* how the service reads a rooted path given to a non-root folder
    folders,    \* the service's folder tree
    tasks,      \* the service's registered tasks
    now,        \* the clock at its latest reading, in half seconds from the start
    nops,       \* operations started so far
    clients,    \* the processes that issue operations
    pc,         \* each process's position
    req,        \* each process's current operation and its arguments
    parent,     \* _get_folder's `parent`, then the folder handle it returned
    parts,      \* the segments _get_folder has still to walk
    td,         \* the task definition register_task is building
    task,       \* the task run_task fetched
    calls,      \* the calls the current operation has made to the service
    created,    \* the folders the current operation has created
    pre,        \* the folder tree and tasks when the current operation began
    result,     \* how the current operation ended
    listing,    \* what list_tasks enumerated
    last,       \* each process's last finished operation
    deleted,    \* (folder, name) pairs deleted and not registered since
    lastSubmit, \* the process whose registration the service stored last
    svc,        \* the session handle each operation holds, 0 for none
    sessions,   \* the sessions the service has opened so far
    via         \* the session handles the current operation's calls went through

vars == <<lookupAbs, folders, tasks, now, nops, clients, pc, req, parent,
          parts, td, task, calls, created, pre, result, listing, last, deleted,
          lastSubmit, svc, sessions, via>>

svcVars == <<folders, tasks>>

\* the datetime of clock reading t
ClockDT(t) == DT(2025, 8, 18, 8 * 3600 + 3479 + t \div 2, (t % 2) * 500000)

NoReq == [op |-> "none"]
NoTd == [none |-> TRUE]
NoLast == [req |-> NoReq]

\* a task another session registered earlier: J1 in \B
EarlierTask ==
    [folder |-> <<SegB>>, name |-> "J1",
     def |-> add_daily_trigger(BaseTaskDef(TaskParams("J1", ExeBar, PathB)), WhenPast),
     user |-> "", pwd |-> "", logon |-> TASK_LOGON_INTERACTIVE_TOKEN,
     state |-> "Ready"]

\* the service as the clients may find it
InitServices ==
    { <<{Root}, {}>>, <<{Root, <<SegB>>}, {EarlierTask}>> }

InitWith(cs) ==
    /\ lookupAbs \in BOOLEAN
    /\ \E s \in InitServices : folders = s[1] /\ tasks = s[2]
    /\ now = 0
    /\ nops = 0
    /\ clients = cs
    /\ pc = [p \in Procs |-> "idle"]
    /\ req = [p \in Procs |-> NoReq]
    /\ parent = [p \in Procs |-> Root]
    /\ parts = [p \in Procs |-> <<>>]
    /\ td = [p \in Procs |-> NoTd]
    /\ task = [p \in Procs |-> <<>>]
    /\ calls = [p \in Procs |-> <<>>]
    /\ created = [p \in Procs |-> {}]
    /\ pre = [p \in Procs |-> [folders |-> {}, tasks |-> {}, sessions |-> 0]]
    /\ result = [p \in Procs |-> "none"]
    /\ listing = [p \in Procs |-> {}]
    /\ last = [p \in Procs |-> NoLast]
    /\ deleted = {}
    /\ lastSubmit = 0
    /\ svc = [p \in Procs |-> 0]
    /\ sessions = 0
    /\ via = [p \in Procs |-> {}]

\* one client, one operation at a time
Init == InitWith({1})

\* two clients
InitConc == InitWith({1, 2})

(* ------------------------------ operations ---------------------------- *)

\* how many operations a behaviour may start
OpBudget == IF Cardinality(clients) > 1 THEN MaxConcOps ELSE MaxOps

Begin(p, r) ==
    /\ pc[p] = "idle"
    /\ p \in clients
    /\ nops < OpBudget
    /\ nops' = nops + 1
    /\ req' = [req EXCEPT ![p] = r]
    /\ calls' = [calls EXCEPT ![p] = <<>>]
    /\ created' = [created EXCEPT ![p] = {}]
    /\ pre' = [pre EXCEPT ![p] = [folders |-> folders, tasks |-> tasks,
                                  sessions |-> sessions]]
    /\ parent' = [parent EXCEPT ![p] = Root]
    /\ parts' = [parts EXCEPT ![p] = <<>>]
    /\ td' = [td EXCEPT ![p] = NoTd]
    /\ task' = [task EXCEPT ![p] = <<>>]
    /\ listing' = [listing EXCEPT ![p] = {}]
    /\ UNCHANGED <<lookupAbs, folders, tasks, now, clients, last, deleted,
                   lastSubmit, svc, sessions, via>>

RegisterReq(params, trigger, when) ==
    [op |-> "register", name |-> params.name, folder |-> params.folder,
     params |-> params, trigger |-> trigger, when |-> when]

\* a caller invokes register_task(params, trigger, when)
CallRegister(p) ==
    \E i \in RegisterInputs :
        /\ Begin(p, RegisterReq(i[1], i[2], i[3]))
        /\ pc' = [pc EXCEPT ![p] = "connect"]
        /\ result' = [result EXCEPT ![p] = "pending"]

\* main, command `register`: argparse's choices, then --at, then register_task
MainRegister(p) ==
    \E a \in ArgSet :
        LET parsed == IF AtTruthy(a.at) THEN Strptime(a.at.text)
                      ELSE [ok |-> TRUE, dt |-> NoneDT]
            entered == a.trigger \in TriggerKinds /\ parsed.ok
            params == ParamsOfArgs(a)
        IN  /\ Begin(p, [op |-> IF entered THEN "register" ELSE "main",
                         name |-> params.name, folder |-> params.folder,
                         params |-> params, trigger |-> a.trigger,
                         when |-> parsed.dt, at |-> a.at])
            /\ IF a.trigger \notin TriggerKinds
               THEN /\ pc' = [pc EXCEPT ![p] = "done"]
                    /\ result' = [result EXCEPT ![p] = "SystemExit"]
               ELSE IF ~parsed.ok
               THEN /\ pc' = [pc EXCEPT ![p] = "done"]
                    /\ result' = [result EXCEPT ![p] = "ValueError"]
               ELSE /\ pc' = [pc EXCEPT ![p] = "connect"]
                    /\ result' = [result EXCEPT ![p] = "pending"]

CallRun(p) ==
    \E ref \in TaskRefs :
        /\ Begin(p, [op |-> "run", name |-> ref[1], folder |-> ref[2]])
        /\ pc' = [pc EXCEPT ![p] = "connect"]
        /\ result' = [result EXCEPT ![p] = "pending"]

CallDelete(p) ==
    \E ref \in TaskRefs :
        /\ Begin(p, [op |-> "delete", name |-> ref[1], folder |-> ref[2]])
        /\ pc' = [pc EXCEPT ![p] = "connect"]
        /\ result' = [result EXCEPT ![p] = "pending"]

CallList(p) ==
    \E f \in ListFolders :
        /\ Begin(p, [op |-> "list", name |-> "", folder |-> f])
        /\ pc' = [pc EXCEPT ![p] = "connect"]
        /\ result' = [result EXCEPT ![p] = "pending"]

\* a call made through the session handle the operation holds
Called(p, c) ==
    /\ calls' = [calls EXCEPT ![p] = Append(@, c)]
    /\ via' = [via EXCEPT ![p] = @ \cup {svc[p]}]

\* where each operation goes once _get_folder has returned
AfterFolder(op) ==
    IF op = "register" THEN "build"
    ELSE IF op = "run" THEN "gettask"
    ELSE IF op = "delete" THEN "delete"
    ELSE "gettasks"

\* Dispatch("Schedule.Service") where sessions n were opened before: always
\* the first session's handle
DispatchShared(n) == 1

\* Dispatch("Schedule.Service") where sessions n were opened before: a new
\* object, a new session
Dispatch(n) == n + 1

\* _connect: Dispatch and Connect; the operation holds the handle in `svc`
Connect(p) ==
    /\ pc[p] = "connect"
    /\ calls' = [calls EXCEPT ![p] = Append(@, "Connect")]
    /\ sessions' = Dispatch(sessions)
    /\ svc' = [svc EXCEPT ![p] = sessions']
    /\ pc' = [pc EXCEPT ![p] = "gf_try"]
    /\ UNCHANGED <<lookupAbs, folders, tasks, now, nops, clients, req, parent,
                   parts, td, task, created, pre, result, listing, last, deleted,
                   lastSubmit, via>>

\* _get_folder: svc.GetFolder(folder_path)
GetFolderTry(p) ==
    /\ pc[p] = "gf_try"
    /\ Called(p, "GetFolder")
    /\ IF SvcSegments(req[p].folder) \in folders
       THEN /\ parent' = [parent EXCEPT ![p] = SvcSegments(req[p].folder)]
            /\ pc' = [pc EXCEPT ![p] = AfterFolder(req[p].op)]
       ELSE /\ pc' = [pc EXCEPT ![p] = "gf_root"]
            /\ UNCHANGED parent
    /\ UNCHANGED <<lookupAbs, folders, tasks, now, nops, clients, req, parts, td,
                   task, created, pre, result, listing, last, deleted, lastSubmit, svc, sessions>>

\* the position after one segment of the walk is settled
WalkOn(p, rest) == IF rest = <<>> THEN AfterFolder(req[p].op) ELSE "gf_loop"

\* _get_folder: parent = svc.GetFolder("\\"), and the split of the path
GetFolderRoot(p) ==
    /\ pc[p] = "gf_root"
    /\ Called(p, "GetFolder")
    /\ parent' = [parent EXCEPT ![p] = Root]
    /\ parts' = [parts EXCEPT ![p] = PathParts(req[p].folder)]
    /\ pc' = [pc EXCEPT ![p] = WalkOn(p, PathParts(req[p].folder))]
    /\ UNCHANGED <<lookupAbs, folders, tasks, now, nops, clients, req, td, task,
                   created, pre, result, listing, last, deleted, lastSubmit, svc, sessions>>

\* the folder parent.GetFolder(text) looks for: the service reads the rooted
\* text from the root or from the folder the handle stands for
LookupTarget(from, text) ==
    IF lookupAbs THEN SvcSegments(text) ELSE from \o SvcSegments(text)

\* _get_folder: parent.GetFolder("\\" + part)
GetFolderPart(p) ==
    /\ pc[p] = "gf_loop"
    /\ Called(p, "GetFolder")
    /\ LET target == LookupTarget(parent[p], Rooted(Head(parts[p])))
       IN  IF target \in folders
           THEN /\ parent' = [parent EXCEPT ![p] = target]
                /\ parts' = [parts EXCEPT ![p] = Tail(@)]
                /\ pc' = [pc EXCEPT ![p] = WalkOn(p, Tail(parts[p]))]
           ELSE /\ pc' = [pc EXCEPT ![p] = "gf_create"]
                /\ UNCHANGED <<parent, parts>>
    /\ UNCHANGED <<lookupAbs, folders, tasks, now, nops, clients, req, td, task,
                   created, pre, result, listing, last, deleted, lastSubmit, svc, sessions>>

\* every other process's record of a quiet service ends
Disturb(p) == [q \in Procs |-> IF q = p \/ last[q] = NoLast THEN last[q]
                                ELSE [last[q] EXCEPT !.quiet = FALSE]]

\* _get_folder: parent.CreateFolder(part); the service refuses a folder that exists
CreateFolder(p) ==
    /\ pc[p] = "gf_create"
    /\ Called(p, "CreateFolder")
    /\ LET target == parent[p] \o SvcSegments(Head(parts[p]))
       IN  IF target \in folders
           THEN /\ pc' = [pc EXCEPT ![p] = "done"]
                /\ result' = [result EXCEPT ![p] = "AlreadyExists"]
                /\ UNCHANGED <<folders, parent, parts, created, last>>
           ELSE /\ folders' = folders \cup {target}
                /\ created' = [created EXCEPT ![p] = @ \cup {target}]
                /\ parent' = [parent EXCEPT ![p] = target]
                /\ parts' = [parts EXCEPT ![p] = Tail(@)]
                /\ pc' = [pc EXCEPT ![p] = WalkOn(p, Tail(parts[p]))]
                /\ last' = Disturb(p)
                /\ UNCHANGED result
    /\ UNCHANGED <<lookupAbs, tasks, now, nops, clients, req, td, task, pre,
                   listing, deleted, lastSubmit, svc, sessions>>

\* register_task reads datetime.now() only where `when` is missing
ReadsClock(trigger, when) == trigger \in {"daily", "once"} /\ when = NoneDT

\* register_task: td = _base_task_def(svc, params), which calls svc.NewTask(0),
\* then the trigger branches; an unsupported kind raises ValueError.  A reading
\* of the clock is no earlier than the reading before it.
Build(p) ==
    /\ pc[p] = "build"
    /\ Called(p, "NewTask")
    /\ IF req[p].trigger \in TriggerKinds
       THEN /\ \E t \in now..MaxClock :
                 /\ now' = IF ReadsClock(req[p].trigger, req[p].when) THEN t ELSE now
                 /\ td' = [td EXCEPT ![p] =
                             AttachTrigger(BaseTaskDef(req[p].params),
                                 req[p].trigger, req[p].when, ClockDT(now'))]
            /\ pc' = [pc EXCEPT ![p] = "submit"]
            /\ UNCHANGED result
       ELSE /\ td' = [td EXCEPT ![p] = BaseTaskDef(req[p].params)]
            /\ pc' = [pc EXCEPT ![p] = "done"]
            /\ result' = [result EXCEPT ![p] = "ValueError"]
            /\ UNCHANGED now
    /\ UNCHANGED <<lookupAbs, folders, tasks, nops, clients, req, parent,
                   parts, task, created, pre, listing, last, deleted, lastSubmit, svc, sessions>>

\* the service stores the task under `name`
Stored(p, name) ==
    /\ tasks' = SvcRegisterTaskDefinition(tasks, parent[p], name, td[p],
                    UserIdOf(req[p].params), PwdOf(req[p].params),
                    req[p].params.logon_type)
    /\ deleted' = deleted \ {<<PathParts(req[p].folder), name>>}
    /\ last' = Disturb(p)
    /\ lastSubmit' = p
    /\ pc' = [pc EXCEPT ![p] = "done"]
    /\ result' = [result EXCEPT ![p] = "ok"]

Refused(p, why) ==
    /\ pc' = [pc EXCEPT ![p] = "done"]
    /\ result' = [result EXCEPT ![p] = why]
    /\ UNCHANGED <<tasks, deleted, last, lastSubmit>>

\* register_task: folder.RegisterTaskDefinition(name, td, 6, user_id, pwd, logon).
\* Without a name the service either refuses or names the task itself.
Submit(p) ==
    /\ pc[p] = "submit"
    /\ Called(p, "RegisterTaskDefinition")
    /\ IF ~SvcAccepts(UserIdOf(req[p].params), PwdOf(req[p].params),
                      req[p].params.logon_type)
       THEN Refused(p, "Rejected")
       ELSE IF req[p].name = ""
       THEN Refused(p, "Rejected") \/ Stored(p, GeneratedName)
       ELSE Stored(p, req[p].name)
    /\ UNCHANGED <<lookupAbs, folders, now, nops, clients, req, parent, parts,
                   td, task, created, pre, listing, svc, sessions>>

\* run_task: f.GetTask(name)
GetTask(p) ==
    /\ pc[p] = "gettask"
    /\ Called(p, "GetTask")
    /\ IF TasksAt(tasks, parent[p], req[p].name) # {}
       THEN /\ task' = [task EXCEPT ![p] = <<parent[p], req[p].name>>]
            /\ pc' = [pc EXCEPT ![p] = "run"]
            /\ UNCHANGED result
       ELSE /\ pc' = [pc EXCEPT ![p] = "done"]
            /\ result' = [result EXCEPT ![p] = "NotFound"]
            /\ UNCHANGED task
    /\ UNCHANGED <<lookupAbs, folders, tasks, now, nops, clients, req, parent,
                   parts, td, created, pre, listing, last, deleted, lastSubmit, svc, sessions>>

\* run_task: task.Run("")
Run(p) ==
    /\ pc[p] = "run"
    /\ Called(p, "Run")
    /\ pc' = [pc EXCEPT ![p] = "done"]
    /\ IF TasksAt(tasks, task[p][1], task[p][2]) # {}
       THEN /\ tasks' = SvcRun(tasks, task[p][1], task[p][2])
            /\ last' = Disturb(p)
            /\ result' = [result EXCEPT ![p] = "ok"]
       ELSE /\ result' = [result EXCEPT ![p] = "NotFound"]
            /\ UNCHANGED <<tasks, last>>
    /\ UNCHANGED <<lookupAbs, folders, now, nops, clients, req, parent, parts,
                   td, task, created, pre, listing, deleted, lastSubmit, svc, sessions>>

\* delete_task: f.DeleteTask(name, 0); the service reports a missing name
Delete(p) ==
    /\ pc[p] = "delete"
    /\ Called(p, "DeleteTask")
    /\ pc' = [pc EXCEPT ![p] = "done"]
    /\ IF TasksAt(tasks, parent[p], req[p].name) # {}
       THEN /\ tasks' = SvcDeleteTask(tasks, parent[p], req[p].name)
            /\ deleted' = deleted \cup {<<PathParts(req[p].folder), req[p].name>>}
            /\ last' = Disturb(p)
            /\ result' = [result EXCEPT ![p] = "ok"]
       ELSE /\ result' = [result EXCEPT ![p] = "NotFound"]
            /\ UNCHANGED <<tasks, deleted, last>>
    /\ UNCHANGED <<lookupAbs, folders, now, nops, clients, req, parent, parts,
                   td, task, created, pre, listing, lastSubmit, svc, sessions>>

\* list_tasks: f.GetTasks(0) and the log line of each task
GetTasks(p) ==
    /\ pc[p] = "gettasks"
    /\ Called(p, "GetTasks")
    /\ listing' = [listing EXCEPT ![p] = SvcGetTasks(tasks, parent[p])]
    /\ pc' = [pc EXCEPT ![p] = "done"]
    /\ result' = [result EXCEPT ![p] = "ok"]
    /\ UNCHANGED <<lookupAbs, folders, tasks, now, nops, clients, req, parent,
                   parts, td, task, created, pre, last, deleted, lastSubmit, svc, sessions>>

\* the calls an operation makes on the folder _get_folder returned
FolderUsers == {"NewTask", "GetTask", "DeleteTask", "GetTasks"}

\* the operation returns or raises; the process keeps nothing of it
Finish(p) ==
    /\ pc[p] = "done"
    /\ last' = [last EXCEPT ![p] =
                  [req |-> IF req[p].op = "register" THEN req[p] ELSE NoReq,
                   ok |-> req[p].op = "register" /\ result[p] = "ok",
                   folder |-> req[p].folder,
                   resolved |-> \E i \in 1..Len(calls[p]) :
                                   calls[p][i] \in FolderUsers,
                   handle |-> parent[p],
                   folders |-> folders, tasks |-> tasks, quiet |-> TRUE]]
    /\ pc' = [pc EXCEPT ![p] = "idle"]
    /\ req' = [req EXCEPT ![p] = NoReq]
    /\ parent' = [parent EXCEPT ![p] = Root]
    /\ parts' = [parts EXCEPT ![p] = <<>>]
    /\ td' = [td EXCEPT ![p] = NoTd]
    /\ task' = [task EXCEPT ![p] = <<>>]
    /\ calls' = [calls EXCEPT ![p] = <<>>]
    /\ created' = [created EXCEPT ![p] = {}]
    /\ pre' = [pre EXCEPT ![p] = [folders |-> {}, tasks |-> {}, sessions |-> 0]]
    /\ result' = [result EXCEPT ![p] = "none"]
    /\ listing' = [listing EXCEPT ![p] = {}]
    /\ svc' = [svc EXCEPT ![p] = 0]
    /\ via' = [via EXCEPT ![p] = {}]
    /\ UNCHANGED <<lookupAbs, folders, tasks, now, nops, clients, deleted,
                   lastSubmit, sessions>>

\* the service's engine: a running instance ends
TaskCompletes ==
    \E t \in tasks :
        /\ t.state = "Running"
        /\ tasks' = (tasks \ {t}) \cup {[t EXCEPT !.state = "Ready"]}
        /\ last' = [q \in Procs |-> IF last[q] = NoLast THEN last[q]
                                     ELSE [last[q] EXCEPT !.quiet = FALSE]]
        /\ UNCHANGED <<lookupAbs, folders, now, nops, clients, pc, req, parent,
                       parts, td, task, calls, created, pre, result, listing,
                       deleted, lastSubmit, svc, sessions, via>>

Next ==
    \/ \E p \in Procs : CallRegister(p)
    \/ \E p \in Procs : MainRegister(p)
    \/ \E p \in Procs : CallRun(p)
    \/ \E p \in Procs : CallDelete(p)
    \/ \E p \in Procs : CallList(p)
    \/ \E p \in Procs : Connect(p)
    \/ \E p \in Procs : GetFolderTry(p)
    \/ \E p \in Procs : GetFolderRoot(p)
    \/ \E p \in Procs : GetFolderPart(p)
    \/ \E p \in Procs : CreateFolder(p)
    \/ \E p \in Procs : Build(p)
    \/ \E p \in Procs : Submit(p)
    \/ \E p \in Procs : GetTask(p)
    \/ \E p \in Procs : Run(p)
    \/ \E p \in Procs : Delete(p)
    \/ \E p \in Procs : GetTasks(p)
    \/ \E p \in Procs : Finish(p)
    \/ TaskCompletes

Spec == Init /\ [][Next]_vars

SpecConc == InitConc /\ [][Next]_vars

(* ------------------------------- claims ------------------------------- *)

\* the service's tasks without their lifecycle state, which the engine moves
Records(ts) == {[t EXCEPT !.state = "-"] : t \in ts}

\* process p is at the end of an operation `op`
AtEnd(p, op) == pc[p] = "done" /\ req[p].op = op

HasCall(p, c) == \E i \in 1..Len(calls[p]) : calls[p][i] = c

\* the folder a path names, and the task a request names in it
Named(folderText) == SvcSegments(folderText)

\* C1: register_task with a trigger kind other than daily, once and logon ends
\* in an error without having called the service: no Connect, no GetFolder or
\* CreateFolder, no NewTask, no RegisterTaskDefinition, and the folders and
\* tasks are those from before the call.
C1_BadTriggerNoCall ==
    \A p \in Procs :
        (AtEnd(p, "register") /\ req[p].trigger \notin TriggerKinds) =>
            /\ result[p] = "ValueError"
            /\ calls[p] = <<>>
            /\ folders = pre[p].folders
            /\ Records(tasks) = Records(pre[p].tasks)

\* C2: register_task with an empty name and a daily trigger fails with a
\* validation error before a folder lookup or creation is issued, so the call
\* creates no folder and no task.
C2_EmptyNameFailsFirst ==
    \A p \in Procs :
        (AtEnd(p, "register") /\ req[p].name = "" /\ req[p].trigger = "daily") =>
            /\ result[p] \notin {"ok", "pending"}
            /\ ~HasCall(p, "GetFolder")
            /\ ~HasCall(p, "CreateFolder")
            /\ created[p] = {}
            /\ Records(tasks) = Records(pre[p].tasks)

\* the name under which the service stored the task of process p
StoredName(p) == IF req[p].name = "" THEN GeneratedName ELSE req[p].name

\* the task a successful register_task of process p stored
StoredBy(p) == TasksAt(tasks, parent[p], StoredName(p))

\* p ends a successful register_task that repeats, input for input, the
\* successful register_task it made just before, the service untouched between
RepeatsRegister(p) ==
    /\ AtEnd(p, "register")
    /\ result[p] = "ok"
    /\ last[p] # NoLast
    /\ last[p].ok
    /\ last[p].quiet
    /\ last[p].req = req[p]

OneTriggerOneAction(p) ==
    /\ Cardinality(StoredBy(p)) = 1
    /\ \A t \in StoredBy(p) : Len(t.def.Triggers) = 1 /\ Len(t.def.Actions) = 1

\* a trigger without its start boundary
NoBoundary(tr) ==
    IF "StartBoundary" \in DOMAIN tr THEN [tr EXCEPT !.StartBoundary = <<>>] ELSE tr

\* the tasks, the one at (folder, name) without the start boundaries of its triggers
ButBoundary(ts, folder, name) ==
    {IF t.folder = folder /\ t.name = name
     THEN [t EXCEPT !.def.Triggers = [i \in 1..Len(@) |-> NoBoundary(@[i])]]
     ELSE t : t \in ts}

\* C3 as stated: register_task twice with the same params, trigger kind and
\* timestamp leaves the service as one call leaves it, the stored definition
\* with exactly one trigger and one action.
C3_IdempotentAsStated ==
    \A p \in Procs :
        RepeatsRegister(p) =>
            /\ folders = last[p].folders
            /\ tasks = last[p].tasks
            /\ OneTriggerOneAction(p)

\* C3 amended: a repeated register_task leaves the service as the first call
\* left it when it does not read the clock (a timestamp is given, or the
\* trigger is logon); when it reads the clock (daily or once without a
\* timestamp) the stored definition may differ from the first call's in the
\* trigger's start boundary and in nothing else.  Either way the stored
\* definition has exactly one trigger and one action.
C3_Idempotent ==
    \A p \in Procs :
        RepeatsRegister(p) =>
            /\ folders = last[p].folders
            /\ OneTriggerOneAction(p)
            /\ IF ReadsClock(req[p].trigger, req[p].when)
               THEN ButBoundary(tasks, parent[p], StoredName(p))
                        = ButBoundary(last[p].tasks, parent[p], StoredName(p))
               ELSE tasks = last[p].tasks

\* C3 witnesses: a repeated register_task with a timestamp has ended, over a
\* task that was there before the first of the two calls
C3_Witness ==
    \E p \in Procs :
        /\ RepeatsRegister(p)
        /\ ~ReadsClock(req[p].trigger, req[p].when)
        /\ req[p].trigger = "daily"
        /\ TasksAt(pre[p].tasks, parent[p], req[p].name) # {}

\* C4: after a successful register_task the service holds exactly one task
\* named params.name in the folder params.folder names, and its definition is
\* the one this call built, whatever was registered there before.
C4_Upsert ==
    \A p \in Procs :
        (AtEnd(p, "register") /\ result[p] = "ok" /\ req[p].name # "") =>
            /\ Cardinality(TasksAt(tasks, Named(req[p].folder), req[p].name)) = 1
            /\ \A t \in TasksAt(tasks, Named(req[p].folder), req[p].name) :
                   t.def = td[p]

\* the folders on the way to `segs`, `segs` included, the root excluded
Prefixes(segs) == {SubSeq(segs, 1, k) : k \in 1..Len(segs)}

\* _get_folder has just returned to process p
Resolved(p) == pc[p] \in {"build", "gettask", "delete", "gettasks"}

\* C5: _get_folder creates exactly the segments of the path that did not exist
\* before the call and no other folder; a second call with the same path
\* creates none and returns the folder the first call returned.
C5_ResolveMinimal ==
    \A p \in Procs :
        Resolved(p) =>
            /\ created[p] = Prefixes(Named(req[p].folder)) \ pre[p].folders
            /\ (last[p] # NoLast /\ last[p].resolved
                    /\ last[p].folder = req[p].folder) =>
                   (created[p] = {} /\ parent[p] = last[p].handle)

\* C6: once delete_task(name, folder) has succeeded, list_tasks(folder) shows
\* no task of that name until a register_task of the same folder and name.
C6_DeletedNotListed ==
    \A p \in Procs :
        (AtEnd(p, "list") /\ result[p] = "ok") =>
            \A e \in listing[p] :
                <<PathParts(req[p].folder), e.Name>> \notin deleted

\* C7: run_task(name, folder) fails with not-found when no task of that name
\* is registered in the folder; no run is requested and no task changes state.
C7_RunMissingFails ==
    \A p \in Procs :
        (AtEnd(p, "run")
            /\ TasksAt(pre[p].tasks, Named(req[p].folder), req[p].name) = {}) =>
            /\ result[p] = "NotFound"
            /\ ~HasCall(p, "Run")
            /\ \A t \in pre[p].tasks : t.state # "Running" =>
                   \E u \in tasks : u.folder = t.folder /\ u.name = t.name
                                      /\ u.state # "Running"

\* C8: a task registered with the interactive-current-user logon carries an
\* empty user id and an empty password, whatever the params held.
C8_NoCredsForInteractive ==
    \A t \in tasks :
        t.logon = TASK_LOGON_INTERACTIVE_TOKEN => (t.user = "" /\ t.pwd = "")

\* the runs of digits of a text and the characters between them
RECURSIVE DigitGroups(_, _, _)
DigitGroups(s, cur, acc) ==
    IF s = <<>> THEN Append(acc, cur)
    ELSE IF IsDigit(Head(s)) THEN DigitGroups(Tail(s), Append(cur, Head(s)), acc)
    ELSE DigitGroups(Tail(s), <<>>, Append(acc, cur))

RECURSIVE Between(_)
Between(s) ==
    IF s = <<>> THEN <<>>
    ELSE IF IsDigit(Head(s)) THEN Between(Tail(s))
    ELSE <<Head(s)>> \o Between(Tail(s))

GroupVal(g) == NumAt(g, 1, Len(g))

\* the accepted format of --at: year-month-dayThour:minute:second of a real
\* date and time, the year in four digits, the others in one or two
InFormat(text) ==
    LET g == DigitGroups(text, <<>>, <<>>)
    IN  /\ Between(text) = <<"-", "-", "T", ":", ":">>
        /\ Len(g) = 6
        /\ Len(g[1]) = 4
        /\ \A i \in 2..6 : Len(g[i]) \in {1, 2}
        /\ GroupVal(g[1]) >= 1
        /\ GroupVal(g[2]) \in 1..12
        /\ GroupVal(g[3]) \in 1..DaysIn(GroupVal(g[1]), GroupVal(g[2]))
        /\ GroupVal(g[4]) \in 0..23
        /\ GroupVal(g[5]) \in 0..59
        /\ GroupVal(g[6]) \in 0..59

\* process p runs the command `register`
FromMain(p) == req[p].op \in {"main", "register"} /\ "at" \in DOMAIN req[p]

\* the command of process p failed before it called the service
FailedBeforeService(p) ==
    /\ pc[p] = "done"
    /\ result[p] = "ValueError"
    /\ calls[p] = <<>>
    /\ created[p] = {}
    /\ folders = pre[p].folders
    /\ Records(tasks) = Records(pre[p].tasks)

Registrable(r) ==
    /\ r.op = "register"
    /\ r.trigger \in TriggerKinds
    /\ r.name # ""
    /\ SvcAccepts(UserIdOf(r.params), PwdOf(r.params), r.params.logon_type)

\* C10: two processes run register_task at once for the same folder and name
\* with different definitions: both calls complete, one task of that name is
\* in the folder, and its definition is the one of the call whose
\* registration reached the service last.  Stated for a service that reads
\* every lookup from the folder it is asked of, so that the walk of
\* _get_folder reaches the folder the path names.
C10_LastWriteWins ==
    \A p, q \in Procs :
        (/\ p # q
         /\ ~lookupAbs
         /\ pc[p] = "done" /\ pc[q] = "done"
         /\ Registrable(req[p]) /\ Registrable(req[q])
         /\ req[p].folder = req[q].folder /\ req[p].name = req[q].name
         /\ req[p] # req[q]) =>
            /\ result[p] = "ok" /\ result[q] = "ok"
            /\ Cardinality(TasksAt(tasks, Named(req[p].folder), req[p].name)) = 1
            /\ \A t \in TasksAt(tasks, Named(req[p].folder), req[p].name) :
                   t.def = td[lastSubmit]

\* the four public operations
PublicOps == {"register", "run", "delete", "list"}

\* how many times the current operation of p called c
CallCount(p, c) == Cardinality({i \in 1..Len(calls[p]) : calls[p][i] = c})

\* process p holds nothing of an earlier operation
HoldsNothing(p) ==
    /\ svc[p] = 0 /\ via[p] = {} /\ calls[p] = <<>>
    /\ req[p] = NoReq /\ parent[p] = Root /\ parts[p] = <<>>
    /\ td[p] = NoTd /\ task[p] = <<>> /\ listing[p] = {}

\* C11: every public operation opens its own session.  An operation that has
\* called the service called connect first and exactly once; the handle it
\* holds is one the service opened after the operation began, no other
\* process holds it, and every other call of the operation went through it;
\* an operation past its connect step has made that call; and between
\* operations a process holds no handle and no state of the operation before.
C11_OwnSession ==
    \A p \in Procs :
        /\ calls[p] # <<>> =>
              /\ calls[p][1] = "Connect"
              /\ CallCount(p, "Connect") = 1
              /\ svc[p] > pre[p].sessions
              /\ svc[p] <= sessions
              /\ via[p] \subseteq {svc[p]}
              /\ \A q \in Procs \ {p} : svc[q] # svc[p]
        /\ (req[p].op \in PublicOps /\ pc[p] \notin {"idle", "connect"}) =>
              calls[p] # <<>>
        /\ pc[p] = "idle" => HoldsNothing(p)

\* C11 witness: a second operation, holding the second session, has made its
\* calls through it and is about to return
C11_Witness ==
    \E p \in Procs :
        /\ pc[p] = "done"
        /\ req[p].op \in PublicOps
        /\ last[p] # NoLast
        /\ pre[p].sessions >= 1
        /\ svc[p] = sessions
        /\ via[p] = {svc[p]}
        /\ Len(calls[p]) >= 3

\* C12: the handle _get_folder(svc, path) returns is the folder whose full
\* path is exactly path, and that folder exists; a folder with the name of a
\* segment that lies elsewhere in the tree is never returned in its place.
C12_ExactFolder ==
    \A p \in Procs :
        Resolved(p) =>
            /\ parent[p] = Named(req[p].folder)
            /\ parent[p] \in folders

\* the start boundary a daily or once trigger is to carry: `when` if it was
\* supplied, else two minutes after the clock's reading, to the second
ExpectedStart(when) ==
    IF when = NoneDT THEN [ClockDT(now) EXCEPT !.sod = @ + 120, !.us = 0]
    ELSE [when EXCEPT !.us = 0]

\* the text tr.StartBoundary reads back as the datetime dt
ReadsAs(text, dt) == Strptime(text) = [ok |-> TRUE, dt |-> dt]

\* C13: the definition a successful register_task submitted, and the service
\* stored, carries exactly one trigger, fixed by (trigger kind, when, now):
\* daily a daily trigger with interval 1, once a time trigger, each with the
\* start boundary `when` if it was supplied (a past one kept as it is) and
\* now + 2 minutes if it was omitted; logon a logon trigger with no timestamp
\* whatever `when` holds.
C13_TriggerFromInputs ==
    \A p \in Procs :
        (AtEnd(p, "register") /\ result[p] = "ok") =>
            /\ Len(td[p].Triggers) = 1
            /\ \A t \in StoredBy(p) : t.def.Triggers = td[p].Triggers
            /\ LET tr == td[p].Triggers[1]
               IN  /\ req[p].trigger = "daily" =>
                        /\ DOMAIN tr = {"Type", "DaysInterval", "StartBoundary"}
                        /\ tr.Type = TASK_TRIGGER_DAILY
                        /\ tr.DaysInterval = 1
                        /\ ReadsAs(tr.StartBoundary, ExpectedStart(req[p].when))
                   /\ req[p].trigger = "once" =>
                        /\ DOMAIN tr = {"Type", "StartBoundary"}
                        /\ tr.Type = TASK_TRIGGER_TIME
                        /\ ReadsAs(tr.StartBoundary, ExpectedStart(req[p].when))
                   /\ (req[p].trigger = "once" /\ req[p].when = WhenPast) =>
                        tr.StartBoundary =
                            <<"2","0","2","0","-","0","1","-","0","1","T",
                              "0","0",":","0","0",":","0","0">>
                   /\ req[p].trigger = "logon" =>
                        tr = [Type |-> TASK_TRIGGER_LOGON]

\* C13 witness: a once trigger registered without a timestamp after the clock
\* has moved, by a process whose registration before it kept a past timestamp
C13_Witness ==
    \E p \in Procs :
        /\ AtEnd(p, "register") /\ result[p] = "ok"
        /\ req[p].trigger = "once" /\ req[p].when = NoneDT
        /\ now > 0
        /\ StoredBy(p) # {}
        /\ last[p] # NoLast /\ last[p].ok
        /\ last[p].req.when = WhenPast

\* C14: task names are scoped by folder.  When a register_task or delete_task
\* for (folder F, name n), n not empty, has succeeded, every task that was
\* registered before the call under another name in F, or in a folder other
\* than F under any name, n included, is still registered with the definition,
\* user, password and logon type it had.
C14_ScopedByFolder ==
    \A p \in Procs :
        ((AtEnd(p, "register") \/ AtEnd(p, "delete"))
            /\ result[p] = "ok" /\ req[p].name # "") =>
            \A t \in pre[p].tasks :
                ~(t.folder = Named(req[p].folder) /\ t.name = req[p].name) =>
                    [t EXCEPT !.state = "-"] \in Records(tasks)

\* the tasks ts, but for instances the service's engine has ended since
EngineOnly(before, after) ==
    /\ Records(after) = Records(before)
    /\ \A t \in after :
          t \in before \/ (t.state = "Ready" /\ [t EXCEPT !.state = "Running"] \in before)

\* C15: list_tasks changes no task: the tasks of every folder, their
\* definitions and their states are after the call what they were before.
\* list_tasks, run_task on a name missing from the folder, and delete_task
\* change the service, besides the removal of the task delete_task names, only
\* by creating the segments of their folder path that were missing, and they
\* create them also when the operation fails or finds nothing.
C15_OnlyFoldersCreated ==
    \A p \in Procs :
        LET F == Named(req[p].folder)
            named == TasksAt(pre[p].tasks, F, req[p].name)
        IN  /\ AtEnd(p, "list") => EngineOnly(pre[p].tasks, tasks)
            /\ (AtEnd(p, "run") /\ named = {}) => EngineOnly(pre[p].tasks, tasks)
            /\ AtEnd(p, "delete") =>
                  Records(tasks) \in {Records(pre[p].tasks),
                                      Records(pre[p].tasks \ named)}
            /\ (AtEnd(p, "list") \/ AtEnd(p, "delete")
                    \/ (AtEnd(p, "run") /\ named = {})) =>
                  /\ created[p] = Prefixes(F) \ pre[p].folders
                  /\ folders = pre[p].folders \cup created[p]

====
